---- MODULE Spec2Model ----
(***************************************************************************)
(* SessionLink browser extension.                                          *)
(*                                                                         *)
(* The repository holds two generations of every script:                   *)
(*   "v1"  promise based : src/scripts/background.js, the content script   *)
(*         of src/unnamed/part_002 lines 450-896, the popup of             *)
(*         src/unnamed/part_003 (message based);                           *)
(*   "v2"  callback based: src/unnamed/part_001 (background), the content  *)
(*         script of src/unnamed/part_002 lines 13-443, the popup of       *)
(*         src/unnamed/part_004 (direct chrome.storage.local access).      *)
(* The variable ver fixes the generation of a behaviour.                   *)
(***************************************************************************)
EXTENDS Integers, Sequences, FiniteSets, TLC

VARIABLES
    ver,        \* "v1" | "v2": which generation of the scripts is loaded
    store,      \* chrome.storage.local: the 'settings' and 'saves' records
    installed,  \* the onInstalled(reason = install) listener has run
    now,        \* Date.now()
    req,        \* the requests: message handlers and popup storage calls
    accessors,  \* contexts that have called the chrome.storage.local API
    ghost,      \* history: initial list, request count, inserted summaries
    page        \* one loaded chat page: document, controls, timers, handlers

vars == <<ver, store, installed, now, req, accessors, ghost, page>>

----------------------------------------------------------------------------
(* Bounds of the model *)

MaxReq == 2
MaxClock == 1
MaxRnd == 2
MaxSeq == 3
MaxNav == 1
MaxPending == 2
FillCount == 25

(* Program constants *)

MaxSaves == 20
MaxAttempts == 20

----------------------------------------------------------------------------
(* Data *)

Versions == {"v1", "v2"}

Min(a, b) == IF a < b THEN a ELSE b

Take(s, n) == SubSeq(s, 1, Min(Len(s), n))

Range(s) == {s[i] : i \in 1..Len(s)}

\* generateId: Date.now().toString(36) + Math.random().toString(36).substr(2, 8).
\* The time part has a fixed width, so the concatenation is the pair.
GenerateId(t, r) == <<t, r>>

Rnd == 0..(MaxRnd - 1)

NoId == <<-1000, 0>>

NoSummary == [id |-> NoId, summary |-> 0]

\* `result.settings || {}`: a missing field reads as the empty string
EmptySettings == [apiProvider |-> "", apiKey |-> ""]

DefaultSettings == [apiProvider |-> "openai", apiKey |-> ""]

\* the records a saveSettings can carry: what the popup form builds, and
\* what another sender of the message can put there, such as a record
\* without apiProvider
SettingsInputs ==
    { [apiProvider |-> "gemini", apiKey |-> "g-b"],
      [apiProvider |-> "openai", apiKey |-> "sk-a"],
      [apiProvider |-> "bogus", apiKey |-> "k-c"],
      [apiProvider |-> "", apiKey |-> "k-d"] }

\* popup validation before a settings write
PopupValid(s) ==
    /\ s.apiKey # ""
    /\ (s.apiProvider = "openai" => s.apiKey = "sk-a")   \* startsWith('sk-')
    /\ s.apiProvider \in {"openai", "gemini"}

EmptyStore ==
    [hasSettings |-> FALSE, settings |-> EmptySettings,
     hasSaves |-> FALSE, saves |-> <<>>]

\* `result.saves || []`
SavesOf(st) == IF st.hasSaves THEN st.saves ELSE <<>>

\* `result.settings || {}`
SettingsOf(st) == IF st.hasSettings THEN st.settings ELSE EmptySettings

\* a list of n earlier summaries, most recent first
Prefill(n) == [i \in 1..n |-> [id |-> GenerateId(0 - i, 0), summary |-> 0]]

----------------------------------------------------------------------------
(* Replies: {success, data?, error?, hasSaved?} *)

NoReply == [success |-> FALSE, error |-> "none", data |-> <<>>, hasSaved |-> FALSE]

Ok(data) == [success |-> TRUE, error |-> "", data |-> data, hasSaved |-> FALSE]

OkHas(b) == [success |-> TRUE, error |-> "", data |-> <<>>, hasSaved |-> b]

Fail(msg) == [success |-> FALSE, error |-> msg, data |-> <<>>, hasSaved |-> FALSE]

LastErrorMsg == "storage error"

CredentialError == "API key not configured"

StorageFailedMsg == "Saved summary but storage failed: storage error"

NoSavesMsg == "No saved states found"

InvalidProviderMsg == "Invalid API provider"

ProviderErrors == {"provider message", "API error: status", "malformed response"}

\* what the provider endpoint answers: a 2xx status with a well formed body,
\* a 2xx status with a body that lacks the text, another status with or
\* without a decodable error message
HttpResponses == {"okBody", "okMalformed", "errorWithMessage", "errorNoMessage"}

\* callOpenAI / callGemini: "ok" when the promise resolves with the summary
\* text, else the message of the Error it rejects with
CallProviderStatusOnly(h) == IF h = "okBody" THEN "ok" ELSE "API error: status"
CallProvider(h) ==
    CASE h = "okBody" -> "ok"
      [] h = "okMalformed" -> "malformed response"
      [] h = "errorWithMessage" -> "provider message"
      [] OTHER -> "API error: status"

----------------------------------------------------------------------------
(* Requests *)

Actions ==
    {"summarize", "getLastSave", "getAllSaves", "hasSavedState",
     "deleteSave", "getSettings", "saveSettings"}

NoReq ==
    [origin |-> "none", action |-> "none", id |-> NoId, settings |-> EmptySettings,
     pc |-> "new", saveData |-> NoSummary, pending |-> <<>>,
     nresp |-> 0, reply |-> NoReply, fault |-> FALSE, http |-> "none",
     gone |-> FALSE, delivered |-> FALSE, platform |-> ""]

Slots == 1..MaxReq

\* what each context of the extension sends
OriginActions(o) ==
    CASE o = "content" -> {"summarize", "getLastSave", "hasSavedState"}
      [] o = "popup" -> {"getSettings", "saveSettings", "getAllSaves", "deleteSave"}
      [] OTHER -> {"saveSettings", "deleteSave", "bogus"}

Origins == {"content", "popup", "ext"}

\* The context that runs the storage calls of a request: the callback popup
\* calls chrome.storage.local itself, everything else is a message to the
\* background listener.
AccessorInPage(o) ==
    IF o = "content" \/ (ver = "v2" /\ o = "popup") THEN o ELSE "bg"
Accessor(o) == IF ver = "v2" /\ o = "popup" THEN "popup" ELSE "bg"

Direct(rq) == Accessor(rq.origin) # "bg"

\* sendResponse(r) of a message handler; the popup shows r instead.  The
\* reply reaches the callback of the sender unless the sender is gone.
FinishSilently(rq, r) == [rq EXCEPT !.pc = "done", !.pending = <<>>]
Finish(rq, r) ==
    [rq EXCEPT !.pc = "done", !.reply = r, !.pending = <<>>,
               !.nresp = IF Direct(rq) THEN @ ELSE @ + 1,
               !.delivered = ~Direct(rq) /\ ~rq.gone]

\* saves.unshift(saveData); truncate to the first 20
BoundedInsertNoTrim(saves, sd) == <<sd>> \o saves
BoundedInsertAppend(saves, sd) == Take(saves \o <<sd>>, MaxSaves)
BoundedInsertDropHead(saves, sd) ==
    IF Len(saves) >= MaxSaves THEN <<sd>> \o Tail(saves) ELSE <<sd>> \o saves
BoundedInsert(saves, sd) ==
    LET u == <<sd>> \o saves
    IN  IF ver = "v2"
        THEN (IF Len(u) > MaxSaves THEN Take(u, MaxSaves) ELSE u)
        ELSE Take(u, MaxSaves)

\* the entries whose id differs from id, in order
RemoveIdOrHead(saves, id) ==
    IF saves # <<>> /\ \A i \in 1..Len(saves) : saves[i].id # id
    THEN Tail(saves)
    ELSE SelectSeq(saves, LAMBDA e : e.id # id)
RemoveIdFirstOnly(saves, id) ==
    LET hits == {i \in 1..Len(saves) : saves[i].id = id}
    IN  IF hits = {} THEN saves
        ELSE LET k == CHOOSE i \in hits : \A j \in hits : i <= j
             IN  SubSeq(saves, 1, k - 1) \o SubSeq(saves, k + 1, Len(saves))
RemoveId(saves, id) == SelectSeq(saves, LAMBDA e : e.id # id)

----------------------------------------------------------------------------
(* The dispatch of a request: handleMessage / the popup's own calls *)

FirstPc(action) ==
    CASE action \in {"summarize", "getSettings"} -> "rdSettings"
      [] action \in {"getLastSave", "getAllSaves", "hasSavedState", "deleteSave"}
            -> "rdSaves"
      [] action = "saveSettings" -> "wrSettings"
      [] OTHER -> "done"

\* 'Unknown action: ' + message.action in the callback generation, the bare
\* 'Unknown action' in the promise generation
UnknownActionMsg(a) ==
    IF ver = "v1" THEN "Unknown action"
    ELSE IF a = "bogus" THEN "Unknown action: bogus" ELSE "Unknown action: other"

DispatchDropsUnknown(o, a, id, s) ==
    LET rq == [NoReq EXCEPT !.origin = o, !.action = a, !.id = id, !.settings = s]
    IN  IF a \in Actions THEN [rq EXCEPT !.pc = FirstPc(a)]
        ELSE [rq EXCEPT !.pc = "done"]
Dispatch(o, a, id, s) ==
    LET rq == [NoReq EXCEPT !.origin = o, !.action = a, !.id = id, !.settings = s]
    IN  IF a \in Actions
        THEN [rq EXCEPT !.pc = FirstPc(a)]
        ELSE Finish(rq, Fail(UnknownActionMsg(a)))

\* ids a deleteSave can name: one of an earlier summary, one of a new summary
DeleteIds == {GenerateId(0 - 1, 0), GenerateId(0, 0)}

\* the inputs a request can carry
ValidInput(o, a, id, s) ==
    /\ a \in OriginActions(o)
    /\ (a # "deleteSave" => id = NoId)
    /\ (a = "deleteSave" => id \in DeleteIds)
    /\ (a # "saveSettings" => s = EmptySettings)
    /\ (a = "saveSettings" => s \in SettingsInputs)
    /\ (a = "saveSettings" /\ o = "popup" => PopupValid(s))


----------------------------------------------------------------------------
(* The steps of a request, each the callback of one storage or network call *)

\* `settings.apiProvider || 'openai'` in the callback generation; the promise
\* generation compares the stored value as it is
ProviderOf(s) ==
    IF ver = "v2" /\ s.apiProvider = "" THEN "openai" ELSE s.apiProvider

\* callback of storage.local.get(['settings'])
OnSettingsReadNoKeyCheck(rq, ok) ==
    IF ok /\ rq.action = "summarize" THEN [rq EXCEPT !.pc = "fetch"]
    ELSE Finish(rq, Fail(LastErrorMsg))
OnSettingsRead(rq, ok) ==
    LET s == SettingsOf(store)
    IN  IF rq.action = "getSettings"
        THEN Finish(rq, IF ok THEN Ok(<<s>>) ELSE Fail(LastErrorMsg))
        ELSE IF ~ok
        THEN Finish(rq, Fail(IF ver = "v2" THEN LastErrorMsg ELSE CredentialError))
        ELSE IF s.apiKey = ""
        THEN Finish(rq, Fail(CredentialError))
        ELSE IF ProviderOf(s) \in {"openai", "gemini"}
        THEN [rq EXCEPT !.pc = "fetch"]
        ELSE Finish(rq, Fail(InvalidProviderMsg))

\* the provider call settles: text on success, an error message otherwise
OnFetchDone(rq, outcome, text, t, r) ==
    IF outcome = "ok"
    THEN [rq EXCEPT !.pc = "rdSaves",
                    !.saveData = [id |-> GenerateId(t, r), summary |-> text]]
    ELSE Finish(rq, Fail(outcome))

\* the error a summarize reports when its bounded insert fails
InsertError == IF ver = "v2" THEN StorageFailedMsg ELSE LastErrorMsg

\* callback of storage.local.get(['saves'])
OnSavesReadFailsWhenEmpty(rq, ok) ==
    IF rq.action \in {"summarize", "deleteSave"}
    THEN [rq EXCEPT !.pc = "wrSaves", !.pending = SavesOf(store)]
    ELSE IF ~ok THEN Finish(rq, Fail(LastErrorMsg))
    ELSE IF SavesOf(store) = <<>> THEN Finish(rq, Fail(NoSavesMsg))
    ELSE IF rq.action = "hasSavedState" THEN Finish(rq, OkHas(TRUE))
    ELSE Finish(rq, Ok(<<SavesOf(store)[1]>>))
OnSavesReadUnlessGone(rq, ok) ==
    IF rq.gone THEN [rq EXCEPT !.pc = "done", !.pending = <<>>]
    ELSE [rq EXCEPT !.pc = "wrSaves",
                    !.pending = BoundedInsert(SavesOf(store), rq.saveData)]
OnSavesRead(rq, ok) ==
    LET saves == SavesOf(store)
    IN  CASE rq.action = "summarize" ->
               IF ok
               THEN [rq EXCEPT !.pc = "wrSaves",
                               !.pending = BoundedInsert(saves, rq.saveData)]
               ELSE Finish(rq, Fail(InsertError))
          [] rq.action = "deleteSave" ->
               IF ok
               THEN [rq EXCEPT !.pc = "wrSaves", !.pending = RemoveId(saves, rq.id)]
               ELSE Finish(rq, Fail(LastErrorMsg))
          [] rq.action = "getLastSave" ->
               IF ~ok THEN Finish(rq, Fail(LastErrorMsg))
               ELSE IF Len(saves) > 0 THEN Finish(rq, Ok(<<saves[1]>>))
               ELSE Finish(rq, Fail(NoSavesMsg))
          [] rq.action = "getAllSaves" ->
               Finish(rq, IF ok THEN Ok(saves) ELSE Fail(LastErrorMsg))
          [] OTHER ->
               Finish(rq, IF ok THEN OkHas(Len(saves) > 0) ELSE Fail(LastErrorMsg))

\* callback of storage.local.set({saves: ...})
OnSavesWritten(rq, ok) ==
    IF rq.action = "summarize"
    THEN Finish(rq, IF ok THEN Ok(<<rq.saveData>>) ELSE Fail(InsertError))
    ELSE Finish(rq, IF ok THEN Ok(<<>>) ELSE Fail(LastErrorMsg))

\* callback of storage.local.set({settings: ...})
OnSettingsWritten(rq, ok) ==
    Finish(rq, IF ok THEN Ok(<<>>) ELSE Fail(LastErrorMsg))

----------------------------------------------------------------------------
(* History *)

NoGhost ==
    [initSaves |-> <<>>, count |-> 0, inserted |-> <<>>, last |-> <<>>,
     dels |-> <<>>, settings |-> <<>>]

\* the ids of the last two deletes, when no other write of 'saves' came
\* between or after them
Deleted(dels, id) == IF dels = <<>> THEN <<id>> ELSE <<dels[Len(dels)], id>>

\* the request remembers that one of its storage calls set lastError
Faulted(rq, ok) == [rq EXCEPT !.fault = @ \/ ~ok]

Touch(q) == accessors' = accessors \cup {Accessor(req[q].origin)}

----------------------------------------------------------------------------
(* Actions *)

\* a context sends a request (or the popup starts its own storage call)
Send(q, o, a, id, s) ==
    /\ req[q].pc = "new"
    /\ \A p \in Slots : p < q => req[p].pc # "new"
    /\ ValidInput(o, a, id, s)
    /\ req' = [req EXCEPT ![q] = Dispatch(o, a, id, s)]
    /\ ghost' = [ghost EXCEPT !.count = @ + 1]
    /\ UNCHANGED <<ver, store, installed, now, accessors, page>>

ReadSettings(q, ok) ==
    /\ req[q].pc = "rdSettings"
    /\ req' = [req EXCEPT ![q] = Faulted(OnSettingsRead(req[q], ok), ok)]
    /\ Touch(q)
    /\ UNCHANGED <<ver, store, installed, now, ghost, page>>

\* h: the answer of the provider endpoint; dt: the time that passed since
\* the last reading of the clock
FetchDone(q, h, text, dt, r) ==
    /\ req[q].pc = "fetch"
    /\ now + dt <= MaxClock
    /\ h # "okBody" => dt = 0 /\ r = 0
    /\ now' = now + dt
    /\ req' = [req EXCEPT ![q] =
                  [OnFetchDone(req[q], CallProvider(h), text, now', r)
                      EXCEPT !.http = h]]
    /\ UNCHANGED <<ver, store, installed, accessors, ghost, page>>

ReadSaves(q, ok) ==
    /\ req[q].pc = "rdSaves"
    /\ req' = [req EXCEPT ![q] = Faulted(OnSavesRead(req[q], ok), ok)]
    /\ Touch(q)
    /\ UNCHANGED <<ver, store, installed, now, ghost, page>>

WriteSaves(q, ok) ==
    /\ req[q].pc = "wrSaves"
    /\ req' = [req EXCEPT ![q] = Faulted(OnSavesWritten(req[q], ok), ok)]
    /\ store' = IF ok
                THEN [store EXCEPT !.hasSaves = TRUE, !.saves = req[q].pending]
                ELSE store
    /\ ghost' = IF ~ok THEN ghost
                ELSE IF req[q].action = "summarize"
                THEN [ghost EXCEPT !.inserted = Append(@, req[q].saveData),
                                   !.last = <<req[q].saveData>>,
                                   !.dels = <<>>]
                ELSE [ghost EXCEPT !.last = <<>>,
                                   !.dels = Deleted(@, req[q].id)]
    /\ Touch(q)
    /\ UNCHANGED <<ver, installed, now, page>>

StoreSettingsMerged(st, s) ==
    [st EXCEPT !.hasSettings = TRUE,
               !.settings = [f \in {"apiProvider", "apiKey"} |-> IF s[f] # "" THEN s[f] ELSE @[f]]]
StoreSettingsOnly(st, s) ==
    [st EXCEPT !.hasSettings = TRUE, !.settings = s, !.saves = <<>>]
\* storage.local.set({settings: settings}): the record under the key
\* 'settings' is replaced by the one given
StoreSettings(st, s) == [st EXCEPT !.hasSettings = TRUE, !.settings = s]

\* ghost.settings: the record of the last saveSettings whose write succeeded
WriteSettings(q, ok) ==
    /\ req[q].pc = "wrSettings"
    /\ req' = [req EXCEPT ![q] = Faulted(OnSettingsWritten(req[q], ok), ok)]
    /\ store' = IF ok THEN StoreSettings(store, req[q].settings) ELSE store
    /\ ghost' = IF ok THEN [ghost EXCEPT !.settings = <<req[q].settings>>] ELSE ghost
    /\ Touch(q)
    /\ UNCHANGED <<ver, installed, now, page>>

\* the page (or popup) that sent request q is closed or navigates away: its
\* sendMessage callback will never run
Teardown(q) ==
    /\ req[q].pc # "new"
    /\ ~Direct(req[q])
    /\ ~req[q].gone
    /\ req' = [req EXCEPT ![q].gone = TRUE]
    /\ UNCHANGED <<ver, store, installed, now, accessors, ghost, page>>

InstalledStoreWithKey ==
    [hasSettings |-> TRUE, settings |-> [apiProvider |-> "openai", apiKey |-> "sk-a"],
     hasSaves |-> TRUE, saves |-> <<>>]
\* onInstalled with reason 'install': defaults for both records
InstalledStore ==
    [hasSettings |-> TRUE, settings |-> DefaultSettings,
     hasSaves |-> TRUE, saves |-> <<>>]

Install ==
    /\ ~installed
    /\ installed' = TRUE
    /\ store' = InstalledStore
    /\ accessors' = accessors \cup {"bg"}
    /\ ghost' = [ghost EXCEPT !.last = <<>>, !.dels = <<>>, !.settings = <<>>]
    /\ UNCHANGED <<ver, now, req, page>>

----------------------------------------------------------------------------
(* detectPlatform of the content script *)

\* A hostname is a sequence of these pieces, a host pattern likewise; no
\* piece, and no run of pieces, spells a pattern in another way, so a pattern
\* is a substring of a hostname exactly when its pieces occur in a row
Pieces == {"chatgpt", "chat", ".openai", ".com", "claude", ".ai", "gemini", ".google"}

\* Object.keys(PLATFORMS) / Object.entries(PLATFORMS): insertion order
PlatformKeys == <<"chatgpt", "claude", "gemini">>

HostPatterns(key) ==
    CASE key = "chatgpt" -> << <<"chatgpt", ".com">>, <<"chat", ".openai", ".com">> >>
      [] key = "claude" -> << <<"claude", ".ai">> >>
      [] OTHER -> << <<"gemini", ".google", ".com">> >>

\* hostname.indexOf(pattern), from position k on; 0 stands for -1
RECURSIVE IndexOf(_, _, _)
IndexOf(hostname, pattern, k) ==
    IF k + Len(pattern) - 1 > Len(hostname) THEN 0
    ELSE IF SubSeq(hostname, k, k + Len(pattern) - 1) = pattern THEN k
    ELSE IndexOf(hostname, pattern, k + 1)

\* the inner loop / hostPatterns.some(...)
RECURSIVE SomePattern(_, _, _)
SomePattern(hostname, patterns, j) ==
    IF j > Len(patterns) THEN FALSE
    ELSE IF IndexOf(hostname, patterns[j], 1) # 0 THEN TRUE
    ELSE SomePattern(hostname, patterns, j + 1)

DetectExactHost(hostname) ==
    IF \E i \in 1..Len(PlatformKeys) :
           hostname = HostPatterns(PlatformKeys[i])[1]
    THEN PlatformKeys[CHOOSE i \in 1..Len(PlatformKeys) :
                         hostname = HostPatterns(PlatformKeys[i])[1]]
    ELSE "none"
\* the outer loop of detectPlatform, from key i on; "none" stands for null
RECURSIVE DetectFrom(_, _)
DetectFrom(hostname, i) ==
    IF i > Len(PlatformKeys) THEN "none"
    ELSE IF SomePattern(hostname, HostPatterns(PlatformKeys[i]), 1)
    THEN PlatformKeys[i]
    ELSE DetectFrom(hostname, i + 1)

DetectPlatform(hostname) == DetectFrom(hostname, 1)

----------------------------------------------------------------------------
(* The content script in one loaded page *)

\* the button containers the page can get: one per run of injectButtons
Gens == 1..(MaxNav + 1)

\* a Save or Resume control and the handler run started from it
NoCtl == [exists |-> FALSE, disabled |-> FALSE, pc |-> "idle"]

NewCtl == [NoCtl EXCEPT !.exists = TRUE]

\* the control after its handler ended: btn.disabled = false
Idle(ctl) == [ctl EXCEPT !.disabled = FALSE, !.pc = "idle"]

\* the control while its handler waits: btn.disabled = true
Running(ctl, pc) == [ctl EXCEPT !.disabled = TRUE, !.pc = pc]

\* the control after an exception left its handler past btn.disabled = true
Stuck(ctl) == [ctl EXCEPT !.disabled = TRUE, !.pc = "idle"]

NoPage ==
    [injected |-> FALSE, observers |-> 0, containers |-> {}, gens |-> 0,
     save |-> [g \in Gens |-> NoCtl], resume |-> [g \in Gens |-> NoCtl],
     hs |-> [g \in Gens |-> FALSE],
     toast |-> "none", navs |-> 0, navTimers |-> 0, polls |-> <<>>,
     docComplete |-> FALSE, sendTimers |-> 0, clips |-> 0, uncaught |-> FALSE,
     sent |-> "none", dom |-> <<>>, scraped |-> <<>>,
     hostname |-> <<>>, platform |-> "unset", text |-> <<>>, passes |-> 0,
     input |-> [kind |-> "none", content |-> <<>>, result |-> "unset"]]

\* showNotification(message, type): the toast holds the type, and for the
\* two fixed error messages below the message with it
Notify(pg, type) == [pg EXCEPT !.toast = type]

\* 'No conversation found to save'
NothingToCapture == "error: nothing to capture"

\* 'No saved context found'
NothingSaved == "error: nothing saved"

\* an exception leaves a handler or callback of the content script uncaught
Uncaught(pg) == [pg EXCEPT !.uncaught = TRUE]

RemoveAt(sq, i) == SubSeq(sq, 1, i - 1) \o SubSeq(sq, i + 1, Len(sq))

\* injectButtons: the callback generation keeps an existing container, the
\* promise generation replaces it and asks hasSavedState before it adds the
\* Resume control
\* pg.containers: the containers in the document, by the run of injectButtons
\* that made them; document.getElementById gives the one appended first
InjectButtons(pg) ==
    LET g == pg.gens + 1
        old == {c \in pg.containers : \A d \in pg.containers : c <= d}
    IN  IF ver = "v2"
        THEN IF pg.containers # {} THEN pg
             ELSE [pg EXCEPT !.containers = (@ \ old) \cup {g}, !.gens = g,
                             !.save[g] = NewCtl, !.resume[g] = NewCtl]
        ELSE [pg EXCEPT !.containers = (@ \ old) \cup {g}, !.gens = g,
                        !.save[g] = NewCtl, !.hs[g] = TRUE]

\* the activation: initialize() starts a readiness poll, watchNavigation()
\* an observer
Activate(pg) ==
    [pg EXCEPT !.injected = TRUE, !.polls = Append(@, 0), !.observers = @ + 1]

ContentScriptUnguarded(pg) ==
    IF DetectPlatform(pg.hostname) = "none" THEN pg ELSE Activate(pg)
ContentScriptAnyHost(pg) ==
    IF pg.injected THEN pg ELSE Activate(pg)
\* the body of the content script up to initialize() and watchNavigation():
\* the callback generation detects the platform and then tests and sets the
\* double-injection flag, the promise generation tests and sets its flag
\* first and detects the platform after it
ContentScript(pg) ==
    LET platform == DetectPlatform(pg.hostname)
        detected == [pg EXCEPT !.platform = platform]
    IN  IF ver = "v2"
        THEN IF platform = "none" THEN detected
             ELSE IF pg.injected THEN detected
             ELSE Activate(detected)
        ELSE IF pg.injected THEN pg
             ELSE IF platform = "none" THEN [detected EXCEPT !.injected = TRUE]
             ELSE Activate(detected)

\* the content script is run in the page, the first time or again
RunScript ==
    /\ page' = ContentScript(page)
    /\ UNCHANGED <<ver, store, installed, now, req, accessors, ghost>>

\* one tick of the readiness interval of initialize; area: the conversation
\* area is in the document.  The callback generation counts its attempts;
\* the promise generation keeps no count, its poll records only that a tick
\* has passed (the 500 ms interval fires before the 10 s timeout)
PollTick(i, area) ==
    /\ i \in 1..Len(page.polls)
    /\ LET a == page.polls[i] + 1
           ready == area \/ page.docComplete
           giveUp == ver = "v2" /\ a >= MaxAttempts
       IN  IF ready \/ giveUp
           THEN page' = InjectButtons([page EXCEPT !.polls = RemoveAt(@, i)])
           ELSE page' = [page EXCEPT !.polls[i] = IF ver = "v2" THEN a ELSE 1]
    /\ UNCHANGED <<ver, store, installed, now, req, accessors, ghost>>

\* setTimeout(() => clearInterval(checkReady), 10000) of the promise generation
PollTimeout(i) ==
    /\ ver = "v1"
    /\ i \in 1..Len(page.polls)
    /\ page.polls[i] = 1
    /\ page' = [page EXCEPT !.polls = RemoveAt(@, i)]
    /\ UNCHANGED <<ver, store, installed, now, req, accessors, ghost>>

\* document.readyState becomes 'complete'
DocLoaded ==
    /\ ~page.docComplete
    /\ page' = [page EXCEPT !.docComplete = TRUE]
    /\ UNCHANGED <<ver, store, installed, now, req, accessors, ghost>>

\* the host page changes its route and the MutationObserver sees a new
\* location.href; dropped: the re-render took the container out of the document
Navigate(dropped) ==
    /\ page.observers > 0
    /\ page.navs < MaxNav
    /\ dropped => page.containers # {}
    /\ page' = [page EXCEPT !.navs = @ + 1, !.navTimers = @ + page.observers,
                            !.containers = IF dropped THEN {} ELSE @]
    /\ UNCHANGED <<ver, store, installed, now, req, accessors, ghost>>

\* the timeout set on navigation: injectButtons after 1500 ms (callback
\* generation), initialize after 1000 ms (promise generation)
NavTimer ==
    /\ page.navTimers > 0
    /\ LET pg == [page EXCEPT !.navTimers = @ - 1]
       IN  page' = IF ver = "v2" THEN InjectButtons(pg)
                   ELSE [pg EXCEPT !.polls = Append(@, 0)]
    /\ UNCHANGED <<ver, store, installed, now, req, accessors, ghost>>

HasSavedReplies == {"has", "hasNot", "fail", "lastError", "none"}

\* the reply to the hasSavedState of injectButtons (promise generation)
HasSavedReply(g, resp) ==
    /\ page.hs[g]
    /\ page' = [page EXCEPT !.hs[g] = FALSE,
                            !.resume[g] = IF resp \in {"has", "lastError"}
                                          THEN NewCtl ELSE @]
    /\ UNCHANGED <<ver, store, installed, now, req, accessors, ghost>>

\* the control of container g can be clicked: it is in the document and
\* not disabled
Clickable(g, ctl) == g \in page.containers /\ ctl.exists /\ ~ctl.disabled

SaveClickedSendsEmpty(pg, g, scrape, sendThrows) ==
    IF scrape = "throw" \/ sendThrows
    THEN Notify([pg EXCEPT !.save[g] = Idle(@)], "error")
    ELSE [pg EXCEPT !.save[g] = Running(@, "wait")]
\* handleSave / handleSaveState up to the message to the background
SaveClicked(pg, g, scrape, sendThrows) ==
    LET failed == Notify([pg EXCEPT !.save[g] = Idle(@)], "error")
    IN  IF scrape = "throw"
        THEN IF ver = "v2" THEN Uncaught([pg EXCEPT !.save[g] = Stuck(@)])
             ELSE failed
        ELSE IF scrape = "empty"
        THEN Notify([pg EXCEPT !.save[g] = Idle(@)], NothingToCapture)
        ELSE IF sendThrows THEN failed
        ELSE [pg EXCEPT !.save[g] = Running(@, "wait")]

ClickSave(g, scrape, sendThrows) ==
    /\ Clickable(g, page.save[g])
    /\ scrape # "msgs" => ~sendThrows
    /\ page' = SaveClicked(page, g, scrape, sendThrows)
    /\ UNCHANGED <<ver, store, installed, now, req, accessors, ghost>>

Replies == {"ok", "fail", "lastError", "none"}

\* the rest of handleSave / handleSaveState: the reply to summarize is there
SaveReplied(pg, g, resp) ==
    Notify([pg EXCEPT !.save[g] = Idle(@)],
           IF resp = "ok" THEN "success" ELSE "error")

ReplySave(g, resp) ==
    /\ page.save[g].pc = "wait"
    /\ page' = SaveReplied(page, g, resp)
    /\ UNCHANGED <<ver, store, installed, now, req, accessors, ghost>>

\* handleResume / handleResumeState up to the message to the background
ResumeClicked(pg, g, sendThrows) ==
    IF sendThrows
    THEN Notify([pg EXCEPT !.resume[g] = Idle(@)],
                IF ver = "v2" THEN NothingSaved ELSE "error")
    ELSE [pg EXCEPT !.resume[g] = Running(@, "wait")]

ClickResume(g, sendThrows) ==
    /\ Clickable(g, page.resume[g])
    /\ page' = ResumeClicked(page, g, sendThrows)
    /\ UNCHANGED <<ver, store, installed, now, req, accessors, ghost>>

InjectResults == {"true", "false", "throw"}

\* the rest of handleResume / handleResumeState: the reply to getLastSave is
\* there; resp = "ok" carries a summary, inj is what injectIntoInput /
\* injectPrompt does
ResumeRepliedKeepsDisabled(pg, g, resp, inj) ==
    Notify([pg EXCEPT !.resume[g].pc = "idle"], "error")
ResumeReplied(pg, g, resp, inj) ==
    IF resp # "ok"
    THEN Notify([pg EXCEPT !.resume[g] = Idle(@)],
                IF ver = "v1" /\ resp = "lastError" THEN "error" ELSE NothingSaved)
    ELSE IF ver = "v2"
    THEN IF inj = "throw" THEN Uncaught([pg EXCEPT !.resume[g] = Idle(@)])
         ELSE IF inj = "true"
         THEN Notify([pg EXCEPT !.resume[g] = Idle(@), !.sendTimers = @ + 1],
                     "success")
         ELSE [pg EXCEPT !.resume[g] = Idle(@), !.clips = @ + 1]
    ELSE IF inj = "throw"
    THEN Notify([pg EXCEPT !.resume[g] = Idle(@)], "error")
    ELSE IF inj = "true"
    THEN Notify([pg EXCEPT !.resume[g] = Idle(@)], "success")
    ELSE [pg EXCEPT !.resume[g].pc = "clip"]

ReplyResume(g, resp, inj) ==
    /\ page.resume[g].pc = "wait"
    /\ resp # "ok" => inj = "true"
    /\ ver = "v2" /\ resp = "ok" /\ inj # "throw"
           => page.sendTimers + page.clips < MaxPending
    /\ page' = ResumeReplied(page, g, resp, inj)
    /\ UNCHANGED <<ver, store, installed, now, req, accessors, ghost>>

\* navigator.clipboard.writeText settles, awaited by handleResumeState
ClipDone(g, ok) ==
    /\ page.resume[g].pc = "clip"
    /\ page' = Notify([page EXCEPT !.resume[g] = Idle(@)],
                      IF ok THEN "info" ELSE "error")
    /\ UNCHANGED <<ver, store, installed, now, req, accessors, ghost>>

\* navigator.clipboard.writeText settles, after the callback of handleResume
ClipSettled(ok) ==
    /\ page.clips > 0
    /\ page' = Notify([page EXCEPT !.clips = @ - 1], IF ok THEN "info" ELSE "error")
    /\ UNCHANGED <<ver, store, installed, now, req, accessors, ghost>>

\* the 400 ms timeout of simulateSend
\* sendBtn is whether the send control is there and not disabled, input
\* whether a compose control is there; sent holds the last event dispatched
SimulateSend(pg, sendBtn, input) ==
    [pg EXCEPT !.sendTimers = @ - 1,
               !.sent = IF sendBtn THEN "click"
                        ELSE IF input THEN "enter" ELSE @]

SendTimer(sendBtn, input) ==
    /\ page.sendTimers > 0
    /\ page' = SimulateSend(page, sendBtn, input)
    /\ UNCHANGED <<ver, store, installed, now, req, accessors, ghost>>

----------------------------------------------------------------------------
(* SpecPage: one page after the content script booted; the replies of the *)
(* background service are inputs                                          *)

ConfiguredStore(n) ==
    [hasSettings |-> TRUE, settings |-> [apiProvider |-> "openai", apiKey |-> "sk-a"],
     hasSaves |-> TRUE, saves |-> Prefill(n)]

InitPage ==
    /\ ver \in Versions
    /\ store = ConfiguredStore(0)
    /\ installed = TRUE
    /\ now = 0
    /\ req = [q \in Slots |-> NoReq]
    /\ accessors = {}
    /\ ghost = NoGhost
    /\ \E c \in BOOLEAN :
           page = [NoPage EXCEPT !.injected = TRUE, !.observers = 1,
                                 !.polls = <<0>>, !.docComplete = c,
                                 !.hostname = <<"claude", ".ai">>,
                                 !.platform = "claude"]

Timers ==
    \/ \E i \in 1..(MaxNav + 1), area \in BOOLEAN : PollTick(i, area)
    \/ \E i \in 1..(MaxNav + 1) : PollTimeout(i)
    \/ NavTimer
    \/ \E sendBtn, input \in BOOLEAN : SendTimer(sendBtn, input)

Answers ==
    \/ \E g \in Gens, r \in HasSavedReplies : HasSavedReply(g, r)
    \/ \E g \in Gens, r \in Replies : ReplySave(g, r)
    \/ \E g \in Gens, r \in Replies, inj \in InjectResults : ReplyResume(g, r, inj)
    \/ \E g \in Gens, ok \in BOOLEAN : ClipDone(g, ok)
    \/ \E ok \in BOOLEAN : ClipSettled(ok)

UserAndHost ==
    \/ DocLoaded
    \/ \E dropped \in BOOLEAN : Navigate(dropped)
    \/ \E g \in Gens, sc \in {"msgs", "empty", "throw"}, st \in BOOLEAN :
            ClickSave(g, sc, st)
    \/ \E g \in Gens, st \in BOOLEAN : ClickResume(g, st)

NextPage == Timers \/ Answers \/ UserAndHost

SpecPage == InitPage /\ [][NextPage]_vars

\* The Resume control alone: no step of a Save handler reads or writes a
\* Resume control, a pending send or a pending clipboard write, so the page
\* without Save clicks has every behaviour of the Resume controls
NextResume ==
    \/ Timers
    \/ \E g \in Gens, r \in HasSavedReplies : HasSavedReply(g, r)
    \/ \E g \in Gens, r \in Replies, inj \in InjectResults : ReplyResume(g, r, inj)
    \/ \E g \in Gens, ok \in BOOLEAN : ClipDone(g, ok)
    \/ \E ok \in BOOLEAN : ClipSettled(ok)
    \/ DocLoaded
    \/ \E dropped \in BOOLEAN : Navigate(dropped)
    \/ \E g \in Gens, st \in BOOLEAN : ClickResume(g, st)

\* every message to the background service gets its callback (with the
\* reply, or with lastError once the port is closed) and every clipboard
\* write settles
FairResume ==
    \A g \in Gens :
        /\ WF_vars(\E r \in Replies, inj \in InjectResults : ReplyResume(g, r, inj))
        /\ WF_vars(\E ok \in BOOLEAN : ClipDone(g, ok))

SpecResumeFair == InitPage /\ [][NextResume]_vars /\ FairResume

----------------------------------------------------------------------------
(* SpecAttach: the content script from its first run on, with the         *)
(* readiness polls, the navigations and the re-attachments, no clicks     *)

InitAttach ==
    /\ ver \in Versions
    /\ store = ConfiguredStore(0)
    /\ installed = TRUE
    /\ now = 0
    /\ req = [q \in Slots |-> NoReq]
    /\ accessors = {}
    /\ ghost = NoGhost
    /\ \E c \in BOOLEAN :
       \E h \in {<<"claude", ".ai">>, <<"chat", ".openai", ".com">>, <<"chat", ".com">>} :
           page = [NoPage EXCEPT !.docComplete = c, !.hostname = h]

NextAttach ==
    \/ RunScript
    \/ \E i \in 1..(MaxNav + 1), area \in BOOLEAN : PollTick(i, area)
    \/ \E i \in 1..(MaxNav + 1) : PollTimeout(i)
    \/ NavTimer
    \/ DocLoaded
    \/ \E dropped \in BOOLEAN : Navigate(dropped)
    \/ \E g \in Gens, r \in HasSavedReplies : HasSavedReply(g, r)

SpecAttach == InitAttach /\ [][NextAttach]_vars

----------------------------------------------------------------------------
(* SpecScrape: scrapeConversation on the message nodes of a document *)

MaxNodes == 4

MaxTurns == 2

\* A message node: the role its selector gives it, whether getMessageText
\* finds no text in it, and getBoundingClientRect().top + window.scrollY.
\* page.dom holds the nodes in document order; the text of node i is i.
Nodes == [role : {"user", "assistant"}, empty : BOOLEAN, top : 0..(MaxNodes - 1)]

\* the nodes follow each other down the page; a node without height, or in
\* a document without layout, has the position of the node before it
Stacked(dom) ==
    /\ dom # <<>> => dom[1].top = 0
    /\ \A i \in 2..Len(dom) : dom[i].top - dom[i - 1].top \in {0, 1}

\* querySelectorAll(selector of one role): indices in document order
RoleEls(dom, role) == SelectSeq([i \in 1..Len(dom) |-> i], LAMBDA i : dom[i].role = role)

\* Array.prototype.sort with the comparator x.top - y.top (a stable sort):
\* insertion after the last element that is not below
RECURSIVE InsertByTop(_, _, _)
InsertByTop(dom, sorted, i) ==
    IF sorted = <<>> THEN <<i>>
    ELSE IF dom[sorted[Len(sorted)]].top <= dom[i].top THEN Append(sorted, i)
    ELSE Append(InsertByTop(dom, SubSeq(sorted, 1, Len(sorted) - 1), i),
                sorted[Len(sorted)])

RECURSIVE SortByTop(_, _)
SortByTop(dom, els) ==
    IF els = <<>> THEN <<>>
    ELSE InsertByTop(dom, SortByTop(dom, SubSeq(els, 1, Len(els) - 1)), els[Len(els)])

\* messages.push({role, content}) for the elements with text
Messages(dom, els) ==
    LET withText == SelectSeq(els, LAMBDA i : ~dom[i].empty)
    IN  [k \in 1..Len(withText) |->
            [role |-> dom[withText[k]].role, content |-> withText[k]]]

\* user and assistant elements put together and sorted by position
ByPosition(dom) ==
    Messages(dom, SortByTop(dom, RoleEls(dom, "user") \o RoleEls(dom, "assistant")))

\* messages.slice(messages.length - limit) / messages.slice(-turns)
LastN(msgs, n) ==
    IF Len(msgs) > n THEN SubSeq(msgs, Len(msgs) - n + 1, Len(msgs)) ELSE msgs

\* scrapeConversation(maxTurns); all: the combined selector (allMessages /
\* messageContainer) matches the nodes
ScrapeConversation(dom, all, maxTurns) ==
    LET unified == IF all THEN Messages(dom, [i \in 1..Len(dom) |-> i]) ELSE <<>>
        messages ==
            IF ver = "v2"
            THEN IF unified # <<>> THEN unified ELSE ByPosition(dom)
            ELSE IF dom = <<>> THEN unified ELSE ByPosition(dom)
    IN  LastN(messages, maxTurns * 2)

InitScrape ==
    /\ ver \in Versions
    /\ store = ConfiguredStore(0)
    /\ installed = TRUE
    /\ now = 0
    /\ req = [q \in Slots |-> NoReq]
    /\ accessors = {}
    /\ ghost = NoGhost
    /\ \E n \in 0..MaxNodes : \E dom \in [1..n -> Nodes] :
            Stacked(dom) /\ page = [NoPage EXCEPT !.dom = dom]

Scrape(all, maxTurns) ==
    /\ page' = [page EXCEPT !.scraped = ScrapeConversation(page.dom, all, maxTurns)]
    /\ UNCHANGED <<ver, store, installed, now, req, accessors, ghost>>

----------------------------------------------------------------------------
(* SpecDetect: detectPlatform on window.location.hostname *)

MaxHost == 4

InitDetect ==
    /\ ver \in Versions
    /\ store = ConfiguredStore(0)
    /\ installed = TRUE
    /\ now = 0
    /\ req = [q \in Slots |-> NoReq]
    /\ accessors = {}
    /\ ghost = NoGhost
    /\ \E n \in 0..MaxHost : \E h \in [1..n -> Pieces] :
            page = [NoPage EXCEPT !.hostname = h]

\* the content script starts: var platform = detectPlatform()
Detect ==
    /\ page.platform = "unset"
    /\ page' = [page EXCEPT !.platform = DetectPlatform(page.hostname)]
    /\ UNCHANGED <<ver, store, installed, now, req, accessors, ghost>>

SpecDetect == InitDetect /\ [][Detect]_vars

----------------------------------------------------------------------------
(* SpecSanitize: sanitize / sanitizeText on a message text *)

MaxText == 5

\* A text is a sequence of these pieces.  Each piece is a run of characters
\* the regular expressions of sanitize treat alike; "script:" is the word
\* script with a colon after it.  No two pieces next to each other spell
\* '<script', '</script>', 'javascript:' or 'on' in another way than piece
\* by piece, so a regular expression matches in the text exactly where its
\* pieces match.  (The flags g and i: every match, letter case ignored.)
Chars == {"<", ">", "/", "script", "style", "java", "script:", "on", "=", " "}

\* pieces made of \w characters only
Word == {"script", "style", "java", "on"}

\* the first position from k on where piece c stands, 0 when there is none
RECURSIVE Find(_, _, _)
Find(t, c, k) ==
    IF k > Len(t) THEN 0 ELSE IF t[k] = c THEN k ELSE Find(t, c, k + 1)

\* the first position from k on where '</name>' starts, 0 when there is none
RECURSIVE FindClose(_, _, _)
FindClose(t, name, k) ==
    IF k + 3 > Len(t) THEN 0
    ELSE IF SubSeq(t, k, k + 3) = <<"<", "/", name, ">">> THEN k
    ELSE FindClose(t, name, k + 1)

\* the piece at k starts with the word name
StartsWith(t, k, name) ==
    k <= Len(t) /\ (t[k] = name \/ (name = "script" /\ t[k] = "script:"))

\* /<name[^>]*>[\s\S]*?<\/name>/ in the callback generation,
\* /<name\b[^<]*(?:(?!<\/name>)<[^<]*)*<\/name>/ in the promise generation:
\* the length of the match that starts at k, 0 when none starts there
BlockMatch(t, name, k) ==
    IF ~(t[k] = "<" /\ StartsWith(t, k + 1, name)) THEN 0
    ELSE IF ver = "v2"
    THEN LET gt == Find(t, ">", k + 2)
             close == IF gt = 0 THEN 0 ELSE FindClose(t, name, gt + 1)
         IN  IF close = 0 THEN 0 ELSE close + 3 - k + 1
    ELSE LET boundary == t[k + 1] = "script:" \/ k + 2 > Len(t) \/ t[k + 2] \notin Word
             close == FindClose(t, name, k + 2)
         IN  IF boundary /\ close # 0 THEN close + 3 - k + 1 ELSE 0

\* /<[^>]+>/
TagMatch(t, k) ==
    LET gt == Find(t, ">", k + 1)
    IN  IF t[k] = "<" /\ gt >= k + 2 THEN gt - k + 1 ELSE 0

\* /javascript:/
SchemeMatch(t, k) ==
    IF t[k] = "java" /\ k + 1 <= Len(t) /\ t[k + 1] = "script:" THEN 2 ELSE 0

\* the end of the run of pieces of the set cs that starts at k: the position
\* of the first piece from k on that is not in cs
RECURSIVE RunEnd(_, _, _)
RunEnd(t, cs, k) ==
    IF k <= Len(t) /\ t[k] \in cs THEN RunEnd(t, cs, k + 1) ELSE k

\* /on\w+\s*=/
HandlerMatch(t, k) ==
    LET w == RunEnd(t, Word, k + 1)
        e == RunEnd(t, {" "}, w)
    IN  IF t[k] = "on" /\ w > k + 1 /\ e <= Len(t) /\ t[e] = "="
        THEN e - k + 1 ELSE 0

MatchAt(kind, t, k) ==
    CASE kind = "script" -> BlockMatch(t, "script", k)
      [] kind = "style" -> BlockMatch(t, "style", k)
      [] kind = "tag" -> TagMatch(t, k)
      [] kind = "javascript:" -> SchemeMatch(t, k)
      [] OTHER -> HandlerMatch(t, k)

\* text.replace(/.../g, ''): one pass from the left, the search going on
\* after each match that was taken out
RECURSIVE ReplaceFrom(_, _, _)
ReplaceFrom(kind, t, k) ==
    IF k > Len(t) THEN <<>>
    ELSE LET m == MatchAt(kind, t, k)
         IN  IF m > 0 THEN ReplaceFrom(kind, t, k + m)
             ELSE <<t[k]>> \o ReplaceFrom(kind, t, k + 1)

Replace(kind, t) == ReplaceFrom(kind, t, 1)

\* String.prototype.trim
RECURSIVE Trim(_)
Trim(t) ==
    IF t = <<>> THEN t
    ELSE IF t[1] = " " THEN Trim(Tail(t))
    ELSE IF t[Len(t)] = " " THEN Trim(SubSeq(t, 1, Len(t) - 1))
    ELSE t

\* sanitize(text) / sanitizeText(text)
Sanitize(t) ==
    IF t = <<>> THEN <<>>
    ELSE Trim(Replace("on...=",
              Replace("javascript:",
                  Replace("tag", Replace("style", Replace("script", t))))))

InitSanitize ==
    /\ ver \in Versions
    /\ store = ConfiguredStore(0)
    /\ installed = TRUE
    /\ now = 0
    /\ req = [q \in Slots |-> NoReq]
    /\ accessors = {}
    /\ ghost = NoGhost
    /\ \E n \in 0..MaxText : \E t \in [1..n -> Chars] :
            page = [NoPage EXCEPT !.text = t]

\* sanitize is applied to the text; passes counts the applications
SanitizeText ==
    /\ page.passes < 2
    /\ page' = [page EXCEPT !.text = Sanitize(@), !.passes = @ + 1]
    /\ UNCHANGED <<ver, store, installed, now, req, accessors, ghost>>

SpecSanitize == InitSanitize /\ [][SanitizeText]_vars

----------------------------------------------------------------------------
(* SpecScrape, continued: the request text handleSave builds from the     *)
(* scraped messages                                                       *)

\* the text getMessageText finds in node i of the documents checked
ContentOf(i) ==
    CASE i % 3 = 1 -> <<"java", "<", "script", ">", "script:">>
      [] i % 3 = 2 -> <<"on", "script", " ", "=", "style">>
      [] OTHER -> <<"script", " ", "style">>

\* parts.join(sep)
RECURSIVE Join(_, _)
Join(parts, sep) ==
    IF parts = <<>> THEN <<>>
    ELSE IF Len(parts) = 1 THEN parts[1]
    ELSE parts[1] \o <<sep>> \o Join(Tail(parts), sep)

ConversationTextRaw(messages) ==
    Join([k \in 1..Len(messages) |->
             <<IF messages[k].role = "user" THEN "USER" ELSE "ASSISTANT", ": ">>
                 \o ContentOf(messages[k].content)], "\n\n")
\* the conversation text of handleSave / handleSaveState: one part per
\* message, role.toUpperCase() + ': ' + sanitize(content), joined by an
\* empty line
ConversationText(messages) ==
    Join([k \in 1..Len(messages) |->
             <<IF messages[k].role = "user" THEN "USER" ELSE "ASSISTANT", ": ">>
                 \o Sanitize(ContentOf(messages[k].content))], "\n\n")

\* handleSave after its scrape: nothing is sent for no messages, else the
\* summarize request carries the conversation text
BuildRequest ==
    /\ page.scraped # <<>>
    /\ page' = [page EXCEPT !.text = ConversationText(page.scraped)]
    /\ UNCHANGED <<ver, store, installed, now, req, accessors, ghost>>

NextScrape ==
    \/ \E all \in BOOLEAN, maxTurns \in 1..MaxTurns : Scrape(all, maxTurns)
    \/ BuildRequest

SpecScrape == InitScrape /\ [][NextScrape]_vars

----------------------------------------------------------------------------
(* SpecInject: injectIntoInput / injectPrompt on the compose control *)

MaxInject == 2

\* injectIntoInput(text) / injectPrompt(text).  input.kind is the element
\* the selectors find: none, a TEXTAREA, an INPUT, an element with the
\* attribute contenteditable="true", an element that is editable because an
\* ancestor is ("inherited"), or any other element ("plain"); a text is a
\* sequence of the pieces "a", "&", "<" and "\n"
InjectIntoInput(input, text) ==
    LET \* escapeHtml(text)
        escaped == [k \in 1..Len(text) |->
                       CASE text[k] = "&" -> "&amp;"
                         [] text[k] = "<" -> "&lt;"
                         [] OTHER -> text[k]]
        \* the text content after innerHTML = '<p>' + escaped + '</p>': the
        \* parser decodes the entities and reads a raw '<' as the start of
        \* a tag, which here never closes
        lt == Find(escaped, "<", 1)
        shown == IF lt = 0 THEN escaped ELSE SubSeq(escaped, 1, lt - 1)
        parsed == [k \in 1..Len(shown) |->
                      CASE shown[k] = "&amp;" -> "&"
                        [] shown[k] = "&lt;" -> "<"
                        [] OTHER -> shown[k]]
        \* the value of an INPUT: line breaks are stripped
        oneLine == SelectSeq(text, LAMBDA c : c # "\n")
    IN  CASE input.kind = "none" -> [input EXCEPT !.result = "false"]
          [] input.kind = "textarea" ->
               [input EXCEPT !.content = text, !.result = "true"]
          [] input.kind = "input" ->
               \* the value setter of HTMLTextAreaElement called on an
               \* INPUT throws in the callback generation
               IF ver = "v2" THEN [input EXCEPT !.result = "throw"]
               ELSE [input EXCEPT !.content = oneLine, !.result = "true"]
          [] input.kind = "editable" ->
               [input EXCEPT !.content = IF ver = "v2" THEN parsed ELSE text,
                             !.result = "true"]
          [] input.kind = "inherited" ->
               \* isContentEditable in the callback generation,
               \* contentEditable === 'true' in the promise generation
               [input EXCEPT !.content = IF ver = "v2" THEN parsed ELSE @,
                             !.result = "true"]
          [] OTHER -> [input EXCEPT !.result = "true"]

InitInject ==
    /\ ver \in Versions
    /\ store = ConfiguredStore(0)
    /\ installed = TRUE
    /\ now = 0
    /\ req = [q \in Slots |-> NoReq]
    /\ accessors = {}
    /\ ghost = NoGhost
    /\ \E n \in 1..MaxInject : \E t \in [1..n -> {"a", "&", "<", "\n"}] :
       \E kind \in {"none", "textarea", "input", "editable", "inherited", "plain"} :
       \E old \in {<<>>, <<"a">>} :
            page = [NoPage EXCEPT !.text = t, !.input.kind = kind,
                                  !.input.content = old]

\* handleResume injects the text page.text it built from the stored summary
Inject ==
    /\ page.input.result = "unset"
    /\ page' = [page EXCEPT !.input = InjectIntoInput(@, page.text)]
    /\ UNCHANGED <<ver, store, installed, now, req, accessors, ghost>>

SpecInject == InitInject /\ [][Inject]_vars

----------------------------------------------------------------------------
(* SpecSummary: the Summary record handleSummarize builds from the text   *)
(* the provider returned                                                  *)

MaxSummary == 122

PreviewLen == 120

PreviewLenOld == 100

\* the text of n characters the provider returned: character i is i
Text(n) == [i \in 1..n |-> i]

\* '...'; 0 is the dot
Dots == <<0, 0, 0>>

\* String.prototype.substring(0, n)
Substring(t, n) == SubSeq(t, 1, Min(n, Len(t)))

\* platform.name of the content script; "" when the message has none
PlatformNames == {"ChatGPT", "Claude", "Gemini", ""}

\* saveData of handleSummarize
SaveData(id, summary, platform) ==
    [id |-> id, summary |-> summary,
     platform |-> IF ver = "v2" /\ platform = "" THEN "Unknown" ELSE platform,
     preview |-> IF ver = "v2" THEN Substring(summary, PreviewLen)
                 ELSE Substring(summary, PreviewLenOld) \o Dots]

InitSummary ==
    /\ ver \in Versions
    /\ store = ConfiguredStore(0)
    /\ installed = TRUE
    /\ now = 0
    /\ \E p \in PlatformNames :
           req = [q \in Slots |->
                    IF q = 1
                    THEN [Dispatch("content", "summarize", NoId, EmptySettings)
                             EXCEPT !.pc = "fetch", !.platform = p]
                    ELSE NoReq]
    /\ accessors = {}
    /\ ghost = NoGhost
    /\ page = NoPage

\* the provider call settles with a text of n characters
Summarized(n) ==
    /\ req[1].pc = "fetch"
    /\ req' = [req EXCEPT ![1].pc = "rdSaves", ![1].http = "okBody",
                          ![1].saveData =
                              SaveData(GenerateId(now, 0), Text(n), req[1].platform)]
    /\ UNCHANGED <<ver, store, installed, now, accessors, ghost, page>>

NextSummary == \E n \in 0..MaxSummary : Summarized(n)

SpecSummary == InitSummary /\ [][NextSummary]_vars

----------------------------------------------------------------------------
(* Spec: requests of all contexts in flight together *)

InitLens == {0, MaxSaves - 1, MaxSaves}

Init ==
    /\ ver \in Versions
    /\ \/ store = EmptyStore /\ installed = FALSE
       \/ \E n \in InitLens : store = ConfiguredStore(n) /\ installed = TRUE
    /\ now = 0
    /\ req = [q \in Slots |-> NoReq]
    /\ accessors = {}
    /\ ghost = [NoGhost EXCEPT !.initSaves = store.saves]
    /\ page = NoPage

Next ==
    \/ \E q \in Slots, o \in {"content", "popup"}, a \in {"summarize", "deleteSave", "saveSettings"},
          id \in DeleteIds \cup {NoId}, s \in SettingsInputs \cup {EmptySettings} :
            Send(q, o, a, id, s)
    \/ \E q \in Slots, ok \in BOOLEAN : ReadSettings(q, ok)
    \/ \E q \in Slots, h \in HttpResponses, dt \in {0, 1}, r \in Rnd :
            FetchDone(q, h, q, dt, r)
    \/ \E q \in Slots, ok \in BOOLEAN : ReadSaves(q, ok)
    \/ \E q \in Slots, ok \in BOOLEAN : WriteSaves(q, ok)
    \/ \E q \in Slots, ok \in BOOLEAN : WriteSettings(q, ok)
    \/ Install

Spec == Init /\ [][Next]_vars

----------------------------------------------------------------------------
(* SpecSeq: requests of every kind, one after another *)

Busy == \E q \in Slots : req[q].pc \notin {"new", "done"}

SendSeq(o, a, id, s) ==
    /\ ~Busy
    /\ ghost.count < MaxSeq
    /\ ValidInput(o, a, id, s)
    /\ req' = [req EXCEPT ![1] = Dispatch(o, a, id, s)]
    /\ ghost' = [ghost EXCEPT !.count = @ + 1]
    /\ UNCHANGED <<ver, store, installed, now, accessors, page>>

NextSeq ==
    \/ \E o \in Origins, a \in Actions \cup {"bogus"},
          id \in DeleteIds \cup {NoId}, s \in SettingsInputs \cup {EmptySettings} :
            SendSeq(o, a, id, s)
    \/ \E ok \in BOOLEAN : ReadSettings(1, ok)
    \/ \E h \in HttpResponses, dt \in {0, 1}, r \in Rnd :
            FetchDone(1, h, ghost.count, dt, r)
    \/ \E ok \in BOOLEAN : ReadSaves(1, ok)
    \/ \E ok \in BOOLEAN : WriteSaves(1, ok)
    \/ \E ok \in BOOLEAN : WriteSettings(1, ok)
    \* the install event between two requests
    \/ ~Busy /\ Install

SpecSeq == Init /\ [][NextSeq]_vars

----------------------------------------------------------------------------
(* SpecGone: summarize requests, one after another, of pages that may be  *)
(* torn down at any moment; the provider call and every storage call      *)
(* succeed                                                                *)

InitGone ==
    /\ ver \in Versions
    /\ \E n \in InitLens : store = ConfiguredStore(n)
    /\ installed = TRUE
    /\ now = 0
    /\ req = [q \in Slots |-> NoReq]
    /\ accessors = {}
    /\ ghost = [NoGhost EXCEPT !.initSaves = store.saves]
    /\ page = NoPage

\* the steps of the handler of the request
Handle ==
    \/ ReadSettings(1, TRUE)
    \/ \E dt \in {0, 1} : FetchDone(1, "okBody", ghost.count, dt, 0)
    \/ ReadSaves(1, TRUE)
    \/ WriteSaves(1, TRUE)

NextGone ==
    \/ SendSeq("content", "summarize", NoId, EmptySettings)
    \/ Teardown(1)
    \/ Handle

\* the storage callbacks run and the provider promise settles, whether or
\* not the sender still exists
FairGone == WF_vars(Handle)

SpecGone == InitGone /\ [][NextGone]_vars /\ FairGone

----------------------------------------------------------------------------
(* SpecFill: summaries S1, S2, ... inserted in order into a fresh store, *)
(* every provider call and storage call succeeding                       *)

\* the k-th summary of the run
S(k) == [id |-> GenerateId(k, 0), summary |-> k]

InitFill ==
    /\ ver \in Versions
    /\ store = ConfiguredStore(0)
    /\ installed = TRUE
    /\ now = 0
    /\ req = [q \in Slots |-> NoReq]
    /\ accessors = {}
    /\ ghost = NoGhost
    /\ page = NoPage

SendFill ==
    /\ ~Busy
    /\ ghost.count < FillCount
    /\ req' = [req EXCEPT ![1] = Dispatch("content", "summarize", NoId, EmptySettings)]
    /\ ghost' = [ghost EXCEPT !.count = @ + 1]
    /\ UNCHANGED <<ver, store, installed, now, accessors, page>>

\* the provider answers the k-th request with text k at time k
FetchFill ==
    /\ req[1].pc = "fetch"
    /\ now' = ghost.count
    /\ req' = [req EXCEPT ![1] =
                  [OnFetchDone(req[1], CallProvider("okBody"), ghost.count, now', 0)
                      EXCEPT !.http = "okBody"]]
    /\ UNCHANGED <<ver, store, installed, accessors, ghost, page>>

NextFill ==
    \/ SendFill
    \/ ReadSettings(1, TRUE)
    \/ FetchFill
    \/ ReadSaves(1, TRUE)
    \/ WriteSaves(1, TRUE)

SpecFill == InitFill /\ [][NextFill]_vars

----------------------------------------------------------------------------
(* SpecSettings: getSettings and saveSettings of the popup and of other   *)
(* senders, in flight together                                            *)

SendSettings(q, o, a, s) ==
    /\ req[q].pc \in {"new", "done"}
    /\ ghost.count < MaxSeq
    /\ a \in {"getSettings", "saveSettings"}
    /\ ValidInput(o, a, NoId, s)
    /\ req' = [req EXCEPT ![q] = Dispatch(o, a, NoId, s)]
    /\ ghost' = [ghost EXCEPT !.count = @ + 1]
    /\ UNCHANGED <<ver, store, installed, now, accessors, page>>

NextSettings ==
    \/ \E q \in Slots, o \in {"popup", "ext"}, a \in {"getSettings", "saveSettings"},
          s \in SettingsInputs \cup {EmptySettings} : SendSettings(q, o, a, s)
    \/ \E q \in Slots, ok \in BOOLEAN : ReadSettings(q, ok)
    \/ \E q \in Slots, ok \in BOOLEAN : WriteSettings(q, ok)
    \/ Install

SpecSettings == Init /\ [][NextSettings]_vars

----------------------------------------------------------------------------
(* SpecReply: concurrent summarize and deleteSave requests, with the write *)
(* of 'saves' and the run of its callback as two steps: the set takes      *)
(* effect in the storage backend, and its callback runs in the service     *)
(* when its turn on the event loop comes                                   *)

\* storage.local.set({saves: ...}) takes effect; its callback is queued
SetSaves(q, ok) ==
    /\ req[q].pc = "wrSaves"
    /\ req' = [req EXCEPT ![q] = Faulted([req[q] EXCEPT !.pc = "cbSaves"], ok)]
    /\ store' = IF ok
                THEN [store EXCEPT !.hasSaves = TRUE, !.saves = req[q].pending]
                ELSE store
    /\ Touch(q)
    /\ UNCHANGED <<ver, installed, now, ghost, page>>

\* the callback of that set runs: lastError is tested and the reply sent
SavesCallback(q) ==
    /\ req[q].pc = "cbSaves"
    /\ req' = [req EXCEPT ![q] = OnSavesWritten(req[q], ~req[q].fault)]
    /\ UNCHANGED <<ver, store, installed, now, accessors, ghost, page>>

NextReply ==
    \/ \E q \in Slots, o \in {"content", "popup"}, a \in {"summarize", "deleteSave"},
          id \in DeleteIds \cup {NoId} :
            Send(q, o, a, id, EmptySettings)
    \/ \E q \in Slots, ok \in BOOLEAN : ReadSettings(q, ok)
    \/ \E q \in Slots, h \in HttpResponses, dt \in {0, 1}, r \in Rnd :
            FetchDone(q, h, q, dt, r)
    \/ \E q \in Slots, ok \in BOOLEAN : ReadSaves(q, ok)
    \/ \E q \in Slots, ok \in BOOLEAN : SetSaves(q, ok)
    \/ \E q \in Slots : SavesCallback(q)

SpecReply == Init /\ [][NextReply]_vars

----------------------------------------------------------------------------
(* Claims on the store *)

\* C1: in every reachable state, whatever the interleaving of summarize,
\* deleteSave, saveSettings and install, 'saves' holds at most 20 entries.
C1_SavesBounded == Len(SavesOf(store)) <= MaxSaves

\* a summarize inserted into a list that was full
C1_Witness ==
    /\ Len(ghost.initSaves) = MaxSaves
    /\ Len(store.saves) = MaxSaves
    /\ \E q \in Slots :
          /\ req[q].action = "summarize" /\ req[q].pc = "done"
          /\ req[q].reply.success
          /\ store.saves[1] = req[q].saveData

Started == {q \in Slots : req[q].pc # "new"}

\* two summarize requests, and no other request, ran against the empty
\* store and both replied success
TwoSummarizesDone ==
    /\ ghost.initSaves = <<>>
    /\ Cardinality(Started) = 2
    /\ \A q \in Started :
          req[q].action = "summarize" /\ req[q].pc = "done" /\ req[q].reply.success

\* C2: two summarize requests in flight together against an empty store,
\* both replying success, leave a list of length 2 that holds both summaries.
C2_NoLostInsert ==
    TwoSummarizesDone =>
        /\ Len(SavesOf(store)) = 2
        /\ \A q \in Started : req[q].saveData \in Range(SavesOf(store))

\* the requests that went to the background message listener
Delivered == {q \in Slots : req[q].pc # "new" /\ ~Direct(req[q])}

\* C3: every request delivered to the message listener gets exactly one
\* sendResponse call on every path: none while its handler runs, one once
\* the handler has ended, never two.
C3_ExactlyOneResponse ==
    \A q \in Delivered :
        /\ req[q].nresp <= 1
        /\ (req[q].pc = "done" <=> req[q].nresp = 1)

\* a summarize that ended on the storage write failure path
C3_Witness ==
    \E q \in Delivered :
        /\ req[q].action = "summarize" /\ req[q].pc = "done"
        /\ req[q].nresp = 1
        /\ req[q].reply = Fail(InsertError)
        /\ req[q].saveData \notin Range(SavesOf(store))

InsertStep(q) ==
    /\ req[q].action = "summarize" /\ req[q].pc = "wrSaves"
    /\ req'[q].pc = "done" /\ req'[q].reply.success

\* C5: with requests run one after another, a successful summarize puts its
\* summary at index 0 and keeps the earlier entries in order, and a
\* getLastSave that follows it with no write in between returns that summary.
C5_HeadInsert ==
    /\ [][InsertStep(1) =>
            /\ store'.saves[1] = req[1].saveData
            /\ Tail(store'.saves) = Take(SavesOf(store), MaxSaves - 1)]_vars
    /\ [](  (/\ req[1].action = "getLastSave" /\ req[1].pc = "done"
             /\ ghost.last # <<>>
             /\ req[1].reply.error # LastErrorMsg)
           => req[1].reply = Ok(ghost.last))

\* a getLastSave returned the summary a summarize had put before older ones
C5_Witness ==
    /\ req[1].action = "getLastSave" /\ req[1].pc = "done"
    /\ ghost.last # <<>>
    /\ req[1].reply = Ok(ghost.last)
    /\ Len(store.saves) = MaxSaves
    /\ store.saves[2] = Prefill(1)[1]

\* C6: after S1..Sn inserted in order into an empty store the list holds the
\* last min(n, 20) of them, most recent first; for n = 25: 20 entries, S25 at
\* the head, S6 at the tail.
C6_FillKeepsNewest ==
    LET n == Len(ghost.inserted)
        saves == SavesOf(store)
    IN  /\ Len(saves) = Min(n, MaxSaves)
        /\ \A i \in 1..Len(saves) : saves[i] = S(n - i + 1)
        /\ (n = 25 => Len(saves) = 20 /\ saves[1] = S(25) /\ saves[20] = S(6))

\* the 25th summary has been inserted
C6_Witness ==
    /\ Len(ghost.inserted) = 25
    /\ ~Busy
    /\ Len(store.saves) = 20
    /\ store.saves[1].summary = 25
    /\ store.saves[20].summary = 6

----------------------------------------------------------------------------
(* Claims on the Save and Resume triggers of a page *)

InFlight(ctls) == {g \in Gens : ctls[g].pc = "wait"}

\* C7: at any time at most one summarize request of the Save trigger and at
\* most one getLastSave request of the Resume trigger of a page is in flight,
\* also when the buttons are injected again by the poll or after navigation
C7_OneRequestPerTrigger ==
    /\ Cardinality(InFlight(page.save)) <= 1
    /\ Cardinality(InFlight(page.resume)) <= 1

\* C8: a Save control that was disabled by its trigger is on its way back to
\* idle: the handler that disabled it is still waiting for its reply, so no
\* run of the Save handler ends with the control left disabled
C8_SaveReturnsToIdle ==
    \A g \in Gens : page.save[g].disabled => page.save[g].pc = "wait"

\* C9: every Resume trigger that enters running returns to idle with the
\* Resume control enabled again: a disabled Resume control always has its
\* handler pending, and a pending handler leads to an idle, enabled control
C9_ResumeReturnsToIdle ==
    /\ [](\A g \in Gens : page.resume[g].disabled => page.resume[g].pc # "idle")
    /\ \A g \in Gens :
           page.resume[g].pc # "idle"
               ~> (page.resume[g].pc = "idle" /\ ~page.resume[g].disabled)

\* a Resume run went through the clipboard fallback and its control is idle
\* and enabled again, in the document
C9_Witness ==
    \E g \in Gens :
        /\ g \in page.containers
        /\ page.resume[g].exists
        /\ page.resume[g].pc = "idle"
        /\ ~page.resume[g].disabled
        /\ page.toast = "info"

\* C10: no exception thrown by a step of a Save or Resume handler (scrape,
\* sanitize, message send, inject) leaves the handler uncaught
C10_ThrowsCaught == ~page.uncaught

----------------------------------------------------------------------------
(* Claims on the failure paths of the background service *)

\* the stored settings have no apiKey: no settings record, or a record whose
\* key is missing or empty
NoKey == SettingsOf(store).apiKey = ""

\* the settings callback of summarize request q runs in this step
SettingsStep(q) ==
    /\ req[q].action = "summarize" /\ req[q].pc = "rdSettings"
    /\ req'[q] # req[q]

\* C11: a summarize request whose settings callback runs while the stored
\* settings have no apiKey ends there with success=false, without a provider
\* call and with the store unchanged; its error is the credential error
\* (unless the settings read itself failed with lastError, which the
\* callback generation reports instead)
C11_NoKeyNoCall ==
    [][\A q \in Slots :
          SettingsStep(q) /\ NoKey =>
              /\ req'[q].pc = "done"
              /\ ~req'[q].reply.success
              /\ (~req'[q].fault => req'[q].reply = Fail(CredentialError))
              /\ req'[q].saveData = NoSummary
              /\ store' = store]_vars

\* a summarize ended with the credential error on the installed defaults,
\* which hold an empty key
C11_Witness ==
    /\ installed /\ store.settings = DefaultSettings /\ store.saves = <<>>
    /\ \E q \in Slots :
          /\ req[q].action = "summarize" /\ req[q].pc = "done"
          /\ ~req[q].fault
          /\ req[q].reply = Fail(CredentialError)

\* the provider call of summarize request q settles in this step
FetchStep(q) == req[q].pc = "fetch" /\ req'[q] # req[q]

InsertFailed(q) ==
    /\ req[q].action = "summarize" /\ req[q].pc = "done"
    /\ req[q].http = "okBody"
    /\ req[q].fault

\* C13: a summarize whose provider call succeeded and whose bounded insert
\* failed on its storage read or write replies success=false with the error
\* 'Saved summary but storage failed...', which no provider failure
\* produces, and its summary is not in the list
C13_StorageFailureDistinct ==
    \A q \in Slots :
        InsertFailed(q) =>
            /\ req[q].reply = Fail(StorageFailedMsg)
            /\ StorageFailedMsg \notin ProviderErrors \cup {LastErrorMsg}
            /\ req[q].saveData \notin Range(SavesOf(store))

\* the summary of the request is the first entry of 'saves'
AtHead == SavesOf(store) # <<>> /\ SavesOf(store)[1] = req[1].saveData

\* C14: a summarize that was sent, whose provider call and storage calls
\* succeed, gets its summary to the head of 'saves' whenever its page is
\* torn down; a request whose sender is gone ends like any other, with one
\* sendResponse call that is delivered nowhere, and the page state is untouched
C14_PersistedAfterTeardown ==
    /\ req[1].pc \notin {"new", "done"} ~> (req[1].pc = "done" /\ AtHead)
    /\ [](req[1].pc = "done" =>
             /\ req[1].nresp = 1 /\ req[1].reply = Ok(<<req[1].saveData>>)
             /\ (~req[1].delivered => req[1].gone)
             /\ AtHead)
    /\ [](page = NoPage)

\* the page was gone before the reply: the summary is at the head of the
\* list and the reply was delivered nowhere
C14_Witness ==
    /\ req[1].pc = "done" /\ req[1].gone /\ ~req[1].delivered
    /\ req[1].reply.success
    /\ AtHead
    /\ Len(SavesOf(store)) = MaxSaves

----------------------------------------------------------------------------
(* Claims on deleteSave and the read-only requests *)

IdsOf(saves) == {saves[i].id : i \in 1..Len(saves)}

\* the write of deleteSave request q succeeds in this step
DeleteStep(q) ==
    /\ req[q].action = "deleteSave" /\ req[q].pc = "wrSaves"
    /\ req'[q].pc = "done" /\ req'[q].reply.success

\* the delete before this one, with no other write of 'saves' since, had
\* the same id
Repeated(q) == ghost.dels # <<>> /\ ghost.dels[Len(ghost.dels)] = req[q].id

\* C15: a deleteSave whose id no stored summary has, and a deleteSave that
\* repeats the one before it, leave the list as it was; a deleteSave whose
\* storage calls succeed replies success=true whether or not the id exists
C15_DeleteIdempotent ==
    /\ [][\A q \in Slots :
             DeleteStep(q) /\ (req[q].id \notin IdsOf(SavesOf(store)) \/ Repeated(q))
                 => /\ store'.saves = SavesOf(store)
                    /\ store'.settings = store.settings]_vars
    /\ [](\A q \in Slots :
             req[q].action = "deleteSave" /\ req[q].pc = "done" /\ ~req[q].fault
                 => req[q].reply.success)

\* the same deleteSave ran twice in a row, both with success: the first
\* removed the newest of 20 entries, the second changed nothing
C15_Witness ==
    /\ ghost.dels = <<Prefill(1)[1].id, Prefill(1)[1].id>>
    /\ req[1].action = "deleteSave" /\ req[1].pc = "done" /\ req[1].reply.success
    /\ req[1].id = Prefill(1)[1].id
    /\ Len(ghost.initSaves) = MaxSaves
    /\ ghost.inserted = <<>>
    /\ store.saves = Tail(ghost.initSaves)

\* new holds the entries of old whose id is not id, each at the position
\* that its rank among them gives
IsFiltered(new, old, id) ==
    LET keep == {i \in 1..Len(old) : old[i].id # id}
    IN  /\ Len(new) = Cardinality(keep)
        /\ \A k \in keep : new[Cardinality({i \in keep : i <= k})] = old[k]

\* C16: a successful deleteSave(id) with no write between its read and its
\* write leaves the previous list without the entries whose id is id, all
\* of them, and with every other entry in its previous relative order
C16_DeleteRemovesExactly ==
    [][\A q \in Slots :
          DeleteStep(q) => IsFiltered(store'.saves, SavesOf(store), req[q].id)]_vars

\* a deleteSave removed the older of two summaries from behind the newer one
C16_Witness ==
    /\ req[1].action = "deleteSave" /\ req[1].pc = "done" /\ req[1].reply.success
    /\ ghost.dels = <<req[1].id>>
    /\ Len(ghost.inserted) = 2
    /\ ghost.inserted[1].id = req[1].id
    /\ ghost.inserted[2].id # req[1].id
    /\ ghost.initSaves = <<>>
    /\ store.saves = <<ghost.inserted[2]>>

\* the read of request q, of action a, succeeds in this step and ends it
ReadStep(q, a) ==
    /\ req[q].action = a /\ req[q].pc = "rdSaves"
    /\ req'[q].pc = "done" /\ ~req'[q].fault

\* C17: on an empty list getLastSave replies success=false with the 'no
\* saved states' error and hasSavedState replies success=true with
\* hasSaved=false; on every store state hasSavedState replies success with
\* hasSaved true exactly when the list is not empty, which is exactly when
\* getLastSave replies success (with the first entry)
C17_LastSaveVsHasSaved ==
    [][\A q \in Slots :
          LET saves == SavesOf(store)
              reply == req'[q].reply
          IN  /\ ReadStep(q, "getLastSave") =>
                    /\ (reply.success <=> saves # <<>>)
                    /\ (saves = <<>> => reply = Fail(NoSavesMsg))
                    /\ (saves # <<>> => reply = Ok(<<saves[1]>>))
              /\ ReadStep(q, "hasSavedState") =>
                    /\ reply.success
                    /\ (reply.hasSaved <=> saves # <<>>)
                    /\ (saves = <<>> => reply = OkHas(FALSE))]_vars

\* hasSavedState replied success with hasSaved=false on the empty list
C17_Witness ==
    /\ req[1].action = "hasSavedState" /\ req[1].pc = "done"
    /\ req[1].reply = OkHas(FALSE)
    /\ ~req[1].fault
    /\ store.hasSaves /\ store.saves = <<>>

\* the error texts that begin with 'Unknown action'
UnknownActionErrors ==
    {"Unknown action", "Unknown action: bogus", "Unknown action: other"}

\* C18: a request whose action is none of the seven replies success=false
\* with an 'Unknown action' error, once, at its dispatch, and the dispatch
\* changes nothing in the store
C18_UnknownAction ==
    /\ [](\A q \in Slots :
             req[q].action \notin Actions \cup {"none"} =>
                 /\ req[q].pc = "done" /\ req[q].nresp = 1
                 /\ ~req[q].reply.success
                 /\ req[q].reply.error \in UnknownActionErrors)
    /\ [][\A q \in Slots :
             req'[q] # req[q] /\ req'[q].action \notin Actions =>
                 store' = store /\ accessors' = accessors]_vars

\* a request with the action 'bogus' was answered, on a store that holds a
\* key and 19 summaries
C18_Witness ==
    /\ req[1].action = "bogus" /\ req[1].pc = "done" /\ req[1].nresp = 1
    /\ req[1].reply = Fail(UnknownActionMsg("bogus"))
    /\ store = ConfiguredStore(MaxSaves - 1)

\* the messages of the page that the background has not answered yet
Unanswered(pg) ==
    {<<"save", g>> : g \in {h \in Gens : pg.save[h].pc = "wait"}}
        \cup {<<"resume", g>> : g \in {h \in Gens : pg.resume[h].pc = "wait"}}

\* C19: a Save click whose scrape finds no message ends with the 'No
\* conversation found to save' error and the control idle and enabled again,
\* and sends nothing: no message of the page is added to the unanswered ones
\* and the request slots and the store stay as they are
C19_EmptyScrapeSendsNothing ==
    [][\A g \in Gens :
          ClickSave(g, "empty", FALSE)
              => /\ page'.toast = NothingToCapture
                 /\ page'.save[g].pc = "idle"
                 /\ ~page'.save[g].disabled
                 /\ Unanswered(page') = Unanswered(page)
                 /\ UNCHANGED <<req, store>>]_vars

\* a Save click has ended with the 'No conversation found to save' error
\* while a Resume run of the same document waits for its reply
C19_Witness ==
    \E g \in Gens :
        /\ page.toast = NothingToCapture
        /\ page.save[g].exists
        /\ page.save[g].pc = "idle"
        /\ ~page.save[g].disabled
        /\ page.resume[g].pc = "wait"

\* what a Resume run does after it learns there is no summary: nothing to
\* the timers of simulateSend, nothing to the clipboard, control idle again
NothingInjected(g) ==
    /\ page'.resume[g].pc = "idle"
    /\ ~page'.resume[g].disabled
    /\ page'.sendTimers = page.sendTimers
    /\ page'.clips = page.clips

\* C20: a Resume click that gets no summary (failure reply, reply without
\* data, no reply, runtime.lastError, or sendMessage throwing) ends with the
\* 'No saved context found' error, and injects, sends and copies nothing
C20_NoSummaryNothingSaved ==
    [][\A g \in Gens :
          /\ \A r \in Replies \ {"ok"} :
                 ReplyResume(g, r, "true")
                     => NothingInjected(g) /\ page'.toast = NothingSaved
          /\ ClickResume(g, TRUE)
                 => NothingInjected(g) /\ page'.toast = NothingSaved]_vars

\* the step starts a write of the summary to the clipboard for the Resume
\* run of control g
ClipboardWritten(g) ==
    IF ver = "v2" THEN page'.clips = page.clips + 1
    ELSE page.resume[g].pc # "clip" /\ page'.resume[g].pc = "clip"

NoClipboardWrite(g) ==
    page'.clips = page.clips /\ page'.resume[g].pc # "clip"

\* C21: in a Resume run that got a summary, injection returning true
\* schedules the send step and writes nothing to the clipboard, and
\* injection returning false writes the clipboard and schedules no send step
C21_ExactlyOneBranch ==
    [][\A g \in Gens :
          /\ ReplyResume(g, "ok", "true")
                 => page'.sendTimers = page.sendTimers + 1 /\ NoClipboardWrite(g)
          /\ ReplyResume(g, "ok", "false")
                 => page'.sendTimers = page.sendTimers /\ ClipboardWritten(g)]_vars

\* C22: a Resume run whose injection found the compose control dispatches
\* nothing itself and schedules one send step; a send step that runs with the
\* compose control there consumes one schedule and dispatches one event, the
\* click when the send control is there and not disabled and the Enter
\* key-down otherwise; no other step dispatches an event
C22_SendOnceAfterDelay ==
    [][/\ \A g \in Gens :
              ReplyResume(g, "ok", "true")
                  => page'.sendTimers = page.sendTimers + 1 /\ page'.sent = page.sent
       /\ \A sendBtn \in BOOLEAN :
              SendTimer(sendBtn, TRUE)
                  => /\ page'.sendTimers = page.sendTimers - 1
                     /\ page'.sent = IF sendBtn THEN "click" ELSE "enter"
       /\ page'.sent # page.sent => page'.sendTimers = page.sendTimers - 1]_vars

\* C23: the stored settings record is, field by field, the record of the
\* saveSettings whose write came last, whatever records were stored or sent
\* before it, and a getSettings read after that write replies exactly it
C23_SettingsReplacedWhole ==
    [][/\ ghost'.settings # <<>>
             => store'.hasSettings /\ store'.settings = ghost'.settings[1]
       /\ \A q \in Slots :
              /\ req[q].action = "getSettings"
              /\ ghost.settings # <<>>
              /\ ReadSettings(q, TRUE)
              => req'[q].reply = Ok(<<ghost.settings[1]>>)]_vars

\* two saveSettings were in flight together, the one sent first wrote last
\* a record without apiProvider over a full one, and a getSettings sent
\* afterwards replied that record
C23_Witness ==
    /\ ghost.count = 3
    /\ req[1].action = "getSettings" /\ req[1].pc = "done"
    /\ req[2].action = "saveSettings" /\ req[2].pc = "done"
    /\ req[2].reply.success
    /\ req[2].settings.apiProvider = "gemini"
    /\ ghost.settings = <<[apiProvider |-> "", apiKey |-> "k-d"]>>
    /\ req[1].reply = Ok(ghost.settings)

\* C24: the ids of the entries of 'saves' are pairwise distinct
C24_IdsDistinct ==
    \A i, j \in 1..Len(store.saves) :
        i # j => store.saves[i].id # store.saves[j].id

\* the message nodes with text, in document order, with their roles
InDocumentOrder(dom) == Messages(dom, [i \in 1..Len(dom) |-> i])

\* C25: on a document whose role selectors match N nodes with text,
\* scrapeConversation(T) returns the last min(N, 2T) of them in document
\* order with their roles, and the empty sequence when N = 0
C25_ScrapeLastTurns ==
    [][\A all \in BOOLEAN, maxTurns \in 1..MaxTurns :
          Scrape(all, maxTurns)
              => LET nodes == InDocumentOrder(page.dom)
                 IN  /\ Len(page'.scraped) = Min(Len(nodes), 2 * maxTurns)
                     /\ page'.scraped = LastN(nodes, 2 * maxTurns)]_vars

\* the pattern occurs as a substring of the hostname
Occurs(pattern, hostname) ==
    \E k \in 1..Len(hostname) :
        /\ k + Len(pattern) - 1 <= Len(hostname)
        /\ SubSeq(hostname, k, k + Len(pattern) - 1) = pattern

\* the adapter with this registration index has a pattern in the hostname
Matches(i, hostname) ==
    \E j \in 1..Len(HostPatterns(PlatformKeys[i])) :
        Occurs(HostPatterns(PlatformKeys[i])[j], hostname)

\* C26: detectPlatform returns the first adapter in the order chatgpt,
\* claude, gemini that has a host pattern occurring in the hostname, and
\* none when no pattern occurs; chatgpt.com and chat.openai.com both give
\* the chatgpt adapter
C26_DetectFirstMatch ==
    page.platform # "unset"
        => LET h == page.hostname
               matching == {i \in 1..Len(PlatformKeys) : Matches(i, h)}
           IN  /\ matching = {} => page.platform = "none"
               /\ matching # {}
                     => \E i \in matching :
                            /\ page.platform = PlatformKeys[i]
                            /\ \A k \in matching : i <= k
               /\ h \in {<<"chatgpt", ".com">>, <<"chat", ".openai", ".com">>}
                     => page.platform = "chatgpt"

\* a hostname that holds claude.ai before chatgpt.com gave the chatgpt
\* adapter
C26_Witness ==
    /\ page.hostname = <<"claude", ".ai", "chatgpt", ".com">>
    /\ page.platform = "chatgpt"

\* C27: applying sanitize to a text that sanitize returned changes nothing
C27_SanitizeIdempotent ==
    [][SanitizeText /\ page.passes = 1 => page'.text = page.text]_vars

\* C28: the Summary built from the provider's text has as preview the first
\* 120 characters of the text, the whole text when it is shorter, and as
\* platform the platform name the capture request carried
C28_PreviewAndPlatform ==
    req[1].pc = "rdSaves"
        => LET d == req[1].saveData
           IN  /\ Len(d.preview) = Min(Len(d.summary), PreviewLen)
               /\ d.preview = SubSeq(d.summary, 1, Len(d.preview))
               /\ req[1].platform # "" => d.platform = req[1].platform

\* the controls of one kind that are in the document
InDocument(ctls) == {g \in page.containers : ctls[g].exists}

\* C29: whatever number of times the content script is run in the page,
\* there is at most one navigation observer and, before any navigation,
\* at most one readiness poll; and the document never holds more than one
\* button container, one Save control and one Resume control
C29_AttachedOnce ==
    /\ page.observers <= 1
    /\ page.navs = 0 => Len(page.polls) <= 1
    /\ Cardinality(page.containers) <= 1
    /\ Cardinality(InDocument(page.save)) <= 1
    /\ Cardinality(InDocument(page.resume)) <= 1

\* the script has run, the host page dropped the first container during a
\* navigation, and the second run of injectButtons put the only container
\* with both controls into the document
C29_Witness ==
    /\ page.injected
    /\ page.navs >= 1
    /\ page.containers = {2}
    /\ page.save[2].exists
    /\ page.resume[2].exists

\* every timer and poll the navigations started has run, and every
\* hasSavedState of an attachment is answered
Reattached ==
    /\ page.injected
    /\ page.navs > 0
    /\ page.navTimers = 0
    /\ page.polls = <<>>
    /\ \A g \in Gens : ~page.hs[g]

\* C30: once the attachment logic has run after the navigations the script
\* saw, a Save and a Resume control are in the document, also when the host
\* page took the container out during a navigation
C30_ControlsAfterNavigation ==
    Reattached => InDocument(page.save) # {} /\ InDocument(page.resume) # {}

\* C31: on a page whose hostname matches no adapter the content script never
\* activates: no container and no control is made, no readiness poll, no
\* navigation timer and no observer is started, and no request (the
\* hasSavedState of injectButtons, or one of a click handler) is sent
C31_NoActivationOffPlatform ==
    DetectPlatform(page.hostname) = "none" =>
        /\ page.gens = 0 /\ page.containers = {}
        /\ page.polls = <<>> /\ page.navTimers = 0 /\ page.observers = 0
        /\ page.sendTimers = 0 /\ page.clips = 0
        /\ \A g \in Gens :
               /\ ~page.hs[g]
               /\ page.save[g] = NoCtl /\ page.resume[g] = NoCtl

\* the script has run on a page of no platform
C31_Witness ==
    /\ page.platform = "none"
    /\ page.hostname # <<>>
    /\ page.docComplete

\* a step of request q: it is sent, or one of its callbacks runs
StepOf(q) == req'[q] # req[q]

\* C32: no step of a getLastSave, getAllSaves, hasSavedState or getSettings
\* changes the store, no step of a saveSettings changes the 'saves' list, no
\* step of a summarize or deleteSave changes the 'settings' record
C32_FrameEffects ==
    [][\A q \in Slots :
          StepOf(q) =>
            LET a == req'[q].action
            IN  /\ a \in {"getLastSave", "getAllSaves", "hasSavedState", "getSettings"}
                      => store' = store
                /\ a = "saveSettings"
                      => store'.hasSaves = store.hasSaves /\ store'.saves = store.saves
                /\ a \in {"summarize", "deleteSave"}
                      => /\ store'.hasSettings = store.hasSettings
                         /\ store'.settings = store.settings]_vars

\* a summarize has inserted, a saveSettings has written its record, and a
\* read request was answered from that store
C32_Witness ==
    /\ ghost.inserted # <<>> /\ Len(SavesOf(store)) > 0
    /\ ghost.settings # <<>> /\ store.settings = ghost.settings[1]
    /\ \E q \in Slots :
           /\ req[q].action \in {"getLastSave", "getAllSaves", "hasSavedState"}
           /\ req[q].pc = "done" /\ req[q].reply.success

\* C33: when the unified extraction (the combined selector, in document
\* order) yields a message, scrapeConversation returns the last messages of
\* that extraction and nothing of the position-sorted one; and no returned
\* message has empty content
C33_FallbackOnlyWhenUnifiedEmpty ==
    [][\A all \in BOOLEAN, maxTurns \in 1..MaxTurns :
          Scrape(all, maxTurns)
              => LET unified == IF all THEN InDocumentOrder(page.dom) ELSE <<>>
                 IN  /\ unified # <<>>
                           => page'.scraped = LastN(unified, 2 * maxTurns)
                     /\ \A k \in 1..Len(page'.scraped) :
                           ~page.dom[page'.scraped[k].content].empty]_vars

\* a readiness poll ends in this step: its interval is cleared
PollEnds == Len(page'.polls) < Len(page.polls)

\* C34: no readiness poll ticks more than MaxAttempts times, and the step
\* that clears a poll is one run of injectButtons, after which a container
\* is in the document, also when the page never got ready
C34_PollEndsWithInjection ==
    [][/\ \A i \in 1..Len(page'.polls) : page'.polls[i] < MaxAttempts
       /\ PollEnds => /\ page'.containers # {}
                      /\ page'.gens \in {page.gens, page.gens + 1}]_vars

\* the parts of a text between the pieces sep
RECURSIVE Split(_, _)
Split(t, sep) ==
    LET k == Find(t, sep, 1)
    IN  IF k = 0 THEN <<t>>
        ELSE <<SubSeq(t, 1, k - 1)>> \o Split(SubSeq(t, k + 1, Len(t)), sep)

\* C35: the conversation text of a summarize request has one part per scraped
\* message, in scrape order, and part k is the upper-cased role of message k,
\* ': ', and the sanitized content of message k
C35_RequestTextSanitized ==
    [][BuildRequest =>
          LET parts == Split(page'.text, "\n\n")
          IN  /\ Len(parts) = Len(page.scraped)
              /\ \A k \in 1..Len(parts) :
                    LET msg == page.scraped[k]
                    IN  /\ parts[k][1] = (IF msg.role = "user" THEN "USER" ELSE "ASSISTANT")
                        /\ parts[k][2] = ": "
                        /\ SubSeq(parts[k], 3, Len(parts[k]))
                              = Sanitize(ContentOf(msg.content))]_vars

\* a request text was built from messages of both roles, one of them with
\* content that sanitize changes
C35_Witness ==
    /\ page.text # <<>>
    /\ page.text = ConversationText(page.scraped)
    /\ \E j, k \in 1..Len(page.scraped) :
           /\ page.scraped[j].role # page.scraped[k].role
           /\ Sanitize(ContentOf(page.scraped[k].content))
                 # ContentOf(page.scraped[k].content)

\* the store holds no summary
NoSaves == SavesOf(store) = <<>>

\* C36: the install event leaves the settings {apiProvider: 'openai',
\* apiKey: ''} and an empty 'saves' list; while the stored apiKey is empty
\* every summarize ends with the credential error (or with the error of a
\* failed storage read), an empty 'saves' list stays empty, and the stored
\* apiKey stays empty until a saveSettings writes a record with a key
C36_NoKeyAfterInstall ==
    [][/\ ~installed /\ installed'
           => /\ store'.hasSettings /\ store'.hasSaves
              /\ store'.settings = [apiProvider |-> "openai", apiKey |-> ""]
              /\ store'.saves = <<>>
       /\ \A q \in Slots :
             SettingsStep(q) /\ NoKey
                => /\ req'[q].pc = "done" /\ ~req'[q].reply.success
                   /\ req'[q].reply.error \in {CredentialError, LastErrorMsg}
       /\ NoKey /\ NoSaves => SavesOf(store') = <<>>
       /\ NoKey /\ SettingsOf(store').apiKey # ""
             => \E q \in Slots :
                   /\ req[q].action = "saveSettings" /\ req[q].pc = "wrSettings"
                   /\ req[q].settings.apiKey # ""
                   /\ store'.settings = req[q].settings]_vars

\* the store is as the install event left it (no other write gives an empty
\* key), and the second request after it, a summarize, ended with the
\* credential error
C36_Witness ==
    /\ installed /\ NoKey /\ NoSaves /\ store.hasSaves
    /\ ghost.count = 2
    /\ req[1].action = "summarize" /\ req[1].pc = "done"
    /\ req[1].reply.error = CredentialError

\* deleteSave p of an id the store held from the start and summarize q, and
\* no other request, ran and both ended without an error
DeleteAndInsertDone(p, q) ==
    /\ Started = {p, q} /\ p # q
    /\ req[p].action = "deleteSave" /\ req[p].id \in IdsOf(ghost.initSaves)
    /\ req[q].action = "summarize"
    /\ \A r \in {p, q} : req[r].pc = "done" /\ req[r].reply.success

\* C37: after a deleteSave and a summarize that were in flight together, in
\* whatever order their storage steps ran, the 'saves' list holds the new
\* summary and no entry with the deleted id
C37_DeleteAndInsertBothKept ==
    \A p, q \in Slots :
        DeleteAndInsertDone(p, q) =>
            /\ req[q].saveData \in Range(SavesOf(store))
            /\ req[p].id \notin IdsOf(SavesOf(store))

\* summarize q replies success in this step, and no deleteSave of the id of
\* its summary is in flight
RepliesSuccess(q) ==
    /\ req[q].action = "summarize"
    /\ req[q].pc # "done" /\ req'[q].pc = "done"
    /\ req'[q].reply.success
    /\ \A p \in Slots \ {q} :
          req[p].action = "deleteSave" => req[p].id # req[q].saveData.id

\* C38: when a summarize replies success with data D, the 'saves' list holds
\* D at that moment, whatever other summarize and deleteSave requests are in
\* flight
C38_ReplyDataStored ==
    [][\A q \in Slots :
          RepliesSuccess(q) =>
              /\ req'[q].reply.data = <<req[q].saveData>>
              /\ req[q].saveData \in Range(SavesOf(store'))]_vars

\* C39: when the injection returns true, the compose control holds exactly
\* the injected text
C39_TrueMeansInjected ==
    [][Inject /\ page'.input.result = "true"
          => page'.input.content = page.text]_vars

\* C40: at most one send of simulateSend waits for its delay at any time
C40_OneSendPending == page.sendTimers <= 1

====
